---- MODULE Spec2Model ----
(***************************************************************************)
(* Model of routes/search.js (GET /api/search, GET /api/search/suggestions, *)
(* GET /api/search/matches and its scorer) of the lost-and-found registry, *)
(* together with the parts of the Mongoose models and of the database      *)
(* configuration that decide what the handlers read: the LostItem and      *)
(* FoundItem schemas and the strictQuery setting.                          *)
(*                                                                         *)
(* Strings are TLA+ strings; dates are whole hours since 2024-01-15T00:00Z *)
(* (the handler divides a millisecond difference by one day, so comparing  *)
(* the difference in hours with 7*24 and 30*24 hours is the same test).    *)
(* An absent or empty string field is "" (both are falsy in the handler).  *)
(***************************************************************************)
EXTENDS Integers, Sequences, FiniteSets, TLC

VARIABLES
  lostItems,        \* the LostItem collection: a set of documents
  foundItems,       \* the FoundItem collection: raw documents in natural order
  pc,               \* position of the handler serving the request
  lostItemId,       \* req.query.lostItemId ("" when absent)
  lostItem,         \* the document findById resolved to
  potentialMatches, \* the documents FoundItem.find returned, in retrieval order
  res,              \* the response sent
  reads,            \* the repository reads the handler issued, with their outcome
  req,              \* req.query of a search or suggestions request
  acc,              \* the handler's local accumulator (results, suggestions)
  suspended,        \* the invocations waiting at an await, each with its own locals
  sLost,            \* scorer harness: the lost record handed to the scorer
  sFound,           \* scorer harness: the found record handed to the scorer
  sScore            \* scorer harness: the score computed (-1 before)

vars == <<lostItems, foundItems, pc, lostItemId, lostItem, potentialMatches,
          res, reads, req, acc, suspended, sLost, sFound, sScore>>

matchVars == <<lostItems, foundItems, pc, lostItemId, lostItem,
               potentialMatches, res, reads>>

scoreVars == <<sLost, sFound, sScore>>

apiVars == <<req, acc>>

----------------------------------------------------------------------------
(* JavaScript string operations used by the handler *)

UpperAlpha == "ABCDEFGHIJKLMNOPQRSTUVWXYZ"
LowerAlpha == "abcdefghijklmnopqrstuvwxyz"

CharAt(s, i) == SubSeq(s, i, i)

\* one character of String.prototype.toLowerCase
LowerChar(c) ==
  IF \E i \in 1..Len(UpperAlpha) : CharAt(UpperAlpha, i) = c
  THEN CharAt(LowerAlpha, CHOOSE i \in 1..Len(UpperAlpha) : CharAt(UpperAlpha, i) = c)
  ELSE c

RECURSIVE toLowerCase(_)
toLowerCase(s) ==
  IF Len(s) = 0 THEN ""
  ELSE LowerChar(CharAt(s, 1)) \o toLowerCase(SubSeq(s, 2, Len(s)))

\* String.prototype.includes
includes(hay, needle) ==
  \E i \in 0..(Len(hay) - Len(needle)) : SubSeq(hay, i + 1, i + Len(needle)) = needle

\* String.prototype.split(" "): the words between single spaces, empty ones kept
RECURSIVE split(_)
split(s) ==
  IF \E i \in 1..Len(s) : CharAt(s, i) = " "
  THEN LET k == CHOOSE i \in 1..Len(s) :
                  /\ CharAt(s, i) = " "
                  /\ \A j \in 1..(i - 1) : CharAt(s, j) # " "
       IN <<SubSeq(s, 1, k - 1)>> \o split(SubSeq(s, k + 1, Len(s)))
  ELSE <<s>>

Abs(n) == IF n < 0 THEN -n ELSE n

----------------------------------------------------------------------------
(* The scorer: the callback of potentialMatches.map *)

HoursPerDay == 24
CategoryPoints == 30
ColorPoints == 25
BrandPoints == 25
SizePoints == 15
WordPoints == 5
NearDays == 7
NearPoints == 10
FarDays == 30
FarPoints == 5

\* variant: the containment taken the other way round
fieldSignalReversed(lostValue, foundValue) ==
  /\ lostValue # ""
  /\ foundValue # ""
  /\ includes(toLowerCase(lostValue), toLowerCase(foundValue))

\* lostItem.f && foundItem.f && foundItem.f.toLowerCase().includes(lostItem.f.toLowerCase())
fieldSignal(lostValue, foundValue) ==
  /\ lostValue # ""
  /\ foundValue # ""
  /\ includes(toLowerCase(foundValue), toLowerCase(lostValue))

\* variant: the shared words counted once each
sharedWordCountDistinct(lostTitle, foundTitle) ==
  LET lostWords == split(toLowerCase(lostTitle))
      foundWords == split(toLowerCase(foundTitle))
  IN Cardinality({lostWords[i] : i \in DOMAIN lostWords}
                   \cap {foundWords[j] : j \in DOMAIN foundWords})

\* variant: the words compared as written, without toLowerCase()
sharedWordCountAsWritten(lostTitle, foundTitle) ==
  LET lostWords == split(lostTitle)
      foundWords == split(foundTitle)
  IN Cardinality({i \in DOMAIN lostWords :
                    \E j \in DOMAIN foundWords : foundWords[j] = lostWords[i]})

\* lostWords.filter((w) => foundWords.includes(w)).length
sharedWordCount(lostTitle, foundTitle) ==
  LET lostWords == split(toLowerCase(lostTitle))
      foundWords == split(toLowerCase(foundTitle))
  IN Cardinality({i \in DOMAIN lostWords :
                    \E j \in DOMAIN foundWords : foundWords[j] = lostWords[i]})

datePoints(dateFound, dateLost) ==
  LET hoursDiff == Abs(dateFound - dateLost)
  IN IF hoursDiff <= NearDays * HoursPerDay THEN NearPoints
     ELSE IF hoursDiff <= FarDays * HoursPerDay THEN FarPoints
     ELSE 0

\* variant: the sum capped at 100
scoreOfCapped(lost, found) ==
  LET sum ==   (IF found.category = lost.category THEN CategoryPoints ELSE 0)
             + (IF fieldSignal(lost.color, found.color) THEN ColorPoints ELSE 0)
             + (IF fieldSignal(lost.brand, found.brand) THEN BrandPoints ELSE 0)
             + (IF fieldSignal(lost.size, found.size) THEN SizePoints ELSE 0)
             + sharedWordCount(lost.title, found.title) * WordPoints
             + datePoints(found.dateFound, lost.dateLost)
  IN IF sum > 100 THEN 100 ELSE sum

scoreOf(lost, found) ==
    (IF found.category = lost.category THEN CategoryPoints ELSE 0)
  + (IF fieldSignal(lost.color, found.color) THEN ColorPoints ELSE 0)
  + (IF fieldSignal(lost.brand, found.brand) THEN BrandPoints ELSE 0)
  + (IF fieldSignal(lost.size, found.size) THEN SizePoints ELSE 0)
  + sharedWordCount(lost.title, found.title) * WordPoints
  + datePoints(found.dateFound, lost.dateLost)

----------------------------------------------------------------------------
(* Mongoose layer: the FoundItem schema and the strictQuery setting *)

\* the paths foundItemSchema declares (timestamps: true adds the last two)
FoundItemPaths ==
  {"uniqueIdentifier", "title", "description", "category", "location",
   "dateFound", "contactEmail", "contactPhone", "images", "foundBy",
   "createdAt", "updatedAt"}

\* mongoose.set("strictQuery", true)
strictQuery == TRUE

\* With strictQuery on, casting a filter against the schema deletes every
\* condition on a path the schema does not declare; an $or member left with
\* no condition is removed, and an $or left with no member is deleted.
castFilter(q) ==
  IF ~strictQuery THEN q
  ELSE LET keep(alts) == SelectSeq(alts, LAMBDA a : a.path \in FoundItemPaths)
           cast == [i \in DOMAIN q.or |-> keep(q.or[i])]
       IN [eq |-> {c \in q.eq : c.path \in FoundItemPaths},
           or |-> SelectSeq(cast, LAMBDA alts : Len(alts) > 0)]

\* { $regex: pattern, $options: "i" } on a field value; a pattern is the
\* alternation (joined with "|") of literal words
regexTest(words, value) ==
  \E i \in DOMAIN words : includes(toLowerCase(value), toLowerCase(words[i]))

\* does a stored document satisfy the (cast) filter
matchesFilter(doc, q) ==
  /\ \A c \in q.eq : doc[c.path] = c.value
  /\ \/ Len(q.or) = 0
     \/ \E i \in DOMAIN q.or : \E j \in DOMAIN q.or[i] :
          regexTest(q.or[i][j].regex, doc[q.or[i][j].path])

\* A hydrated document exposes as properties only the paths of its schema:
\* reading any other stored field through the document yields undefined.
hydrate(raw) ==
  [f \in DOMAIN raw |-> IF f \in FoundItemPaths \cup {"id"} THEN raw[f] ELSE ""]

\* { ...foundItem.toObject(), matchScore: score }
withScore(raw, score) ==
  [f \in DOMAIN raw \cup {"matchScore"} |->
     IF f = "matchScore" THEN score ELSE raw[f]]

----------------------------------------------------------------------------
(* Sorting, limit and slice *)

Reverse(s) == [i \in 1..Len(s) |-> s[Len(s) + 1 - i]]

Take(s, n) == SubSeq(s, 1, IF Len(s) < n THEN Len(s) ELSE n)

\* a stable sort by non-increasing value of a field (Array.prototype.sort
\* with (a, b) => b.f - a.f is stable; so is a sorted cursor once its
\* order among equal keys is fixed)
insertDesc(sorted, x, f) ==
  LET k == Cardinality({i \in DOMAIN sorted : sorted[i][f] >= x[f]})
  IN SubSeq(sorted, 1, k) \o <<x>> \o SubSeq(sorted, k + 1, Len(sorted))

RECURSIVE sortDescBy(_, _)
sortDescBy(s, f) ==
  IF Len(s) <= 1 THEN s
  ELSE insertDesc(sortDescBy(SubSeq(s, 1, Len(s) - 1), f), s[Len(s)], f)

----------------------------------------------------------------------------
(* GET /api/search/matches *)

CandidateLimit == 20
MinScore == 30
MatchLimit == 10

NoItem == [id |-> ""]
NoResponse == [status |-> 0, lostItem |-> NoItem, matches |-> <<>>]

\* lostItem.title.split(" ").filter((w) => w.length > 2)
titleWords(title) == SelectSeq(split(title), LAMBDA w : Len(w) > 2)

\* the members pushed on optionalMatches, each a list of alternatives
optionalMatches(lost) ==
     (IF lost.color # "" THEN <<(<<[path |-> "color", regex |-> <<lost.color>>]>>)>> ELSE <<>>)
  \o (IF lost.brand # "" THEN <<(<<[path |-> "brand", regex |-> <<lost.brand>>]>>)>> ELSE <<>>)
  \o (IF lost.size # "" THEN <<(<<[path |-> "size", regex |-> <<lost.size>>]>>)>> ELSE <<>>)
  \o (IF Len(titleWords(lost.title)) > 0
      THEN <<(<<[path |-> "title", regex |-> titleWords(lost.title)],
               [path |-> "description", regex |-> titleWords(lost.title)]>>)>>
      ELSE <<>>)

\* variant: the category condition left out of the query
matchQueryNoCategory(lost) ==
  [eq |-> {[path |-> "status", value |-> "unclaimed"]},
   or |-> optionalMatches(lost)]

\* { status: "unclaimed", category: lostItem.category, $or: optionalMatches }
matchQuery(lost) ==
  [eq |-> {[path |-> "status", value |-> "unclaimed"],
           [path |-> "category", value |-> lost.category]},
   or |-> optionalMatches(lost)]

\* FoundItem.find(q).sort({ dateFound: -1 }).limit(20); documents with the
\* same dateFound come in natural order or in the reverse of it
findFound(collection, q, naturalTies) ==
  LET selected == SelectSeq(collection, LAMBDA d : matchesFilter(d, castFilter(q)))
      ordered == IF naturalTies THEN selected ELSE Reverse(selected)
  IN Take(sortDescBy(ordered, "dateFound"), CandidateLimit)

\* potentialMatches.map(...): the handler scores the hydrated document
scoredMatches(lost, candidates) ==
  [i \in DOMAIN candidates |->
     withScore(candidates[i], scoreOf(lost, hydrate(candidates[i])))]

\* variant: the threshold applied, the sort left out
topMatchesUnsorted(scored) ==
  SelectSeq(scored, LAMBDA m : m.matchScore >= MinScore)

\* variant: the threshold strict, matchScore > 30
topMatchesAbove(scored) ==
  sortDescBy(SelectSeq(scored, LAMBDA m : m.matchScore > MinScore), "matchScore")

\* scoredMatches.filter((m) => m.matchScore >= 30).sort(by matchScore, descending)
topMatches(scored) ==
  sortDescBy(SelectSeq(scored, LAMBDA m : m.matchScore >= MinScore), "matchScore")

\* variant: the whole ranked list sent, without slice(0, 10)
matchesResponseUnsliced(lost, candidates) ==
  [status |-> 200,
   lostItem |-> lost,
   matches |-> topMatches(scoredMatches(lost, candidates))]

\* variant: the score halved for display after the threshold was applied
matchesResponseScaled(lost, candidates) ==
  LET top == Take(topMatches(scoredMatches(lost, candidates)), MatchLimit)
  IN [status |-> 200,
      lostItem |-> lost,
      matches |-> [i \in DOMAIN top |->
                     [top[i] EXCEPT !.matchScore = top[i].matchScore \div 2]]]

\* the body of the 200 response
matchesResponse(lost, candidates) ==
  [status |-> 200,
   lostItem |-> lost,
   matches |-> Take(topMatches(scoredMatches(lost, candidates)), MatchLimit)]

\* one awaited repository call and how it ended
Read(collection, outcome) == [collection |-> collection, outcome |-> outcome]

errorResponse(code) == [status |-> code, lostItem |-> NoItem, matches |-> <<>>]

\* variant: the null check on the resolved document left out, so that reading
\* lostItem.category throws and the catch block answers 500
MatchesLostNotFoundUnchecked ==
  /\ pc = "findById"
  /\ \A d \in lostItems : d.id # lostItemId
  /\ reads' = Append(reads, Read("lost", "null"))
  /\ res' = errorResponse(500)
  /\ pc' = "done"
  /\ UNCHANGED <<lostItems, foundItems, lostItemId, lostItem, potentialMatches,
                 scoreVars, suspended,
                 apiVars>>

\* variant: the test of lostItemId left out, findById awaited in any case
MatchesRequestUnchecked(id) ==
  /\ pc = "idle"
  /\ lostItemId' = id
  /\ res' = res
  /\ pc' = "findById"
  /\ UNCHANGED <<lostItems, foundItems, lostItem, potentialMatches, reads,
                 scoreVars, suspended, apiVars>>

\* the request arrives; without lostItemId the handler answers 400,
\* otherwise it awaits LostItem.findById
MatchesRequest(id) ==
  /\ pc = "idle"
  /\ lostItemId' = id
  /\ IF id = ""
     THEN /\ res' = errorResponse(400)
          /\ pc' = "done"
     ELSE /\ res' = res
          /\ pc' = "findById"
  /\ UNCHANGED <<lostItems, foundItems, lostItem, potentialMatches, reads,
                 scoreVars, suspended,
                 apiVars>>

\* variant: a lost item that is not active is answered like a missing one
MatchesLostResolvedActiveOnly ==
  /\ pc = "findById"
  /\ \E d \in lostItems :
       /\ d.id = lostItemId
       /\ lostItem' = d
       /\ IF d.status = "active"
          THEN pc' = "find" /\ res' = res
          ELSE pc' = "done" /\ res' = errorResponse(404)
  /\ reads' = Append(reads, Read("lost", "document"))
  /\ UNCHANGED <<lostItems, foundItems, lostItemId, potentialMatches,
                 scoreVars, suspended, apiVars>>

\* findById resolves to a document: the handler builds matchQuery and
\* awaits FoundItem.find
MatchesLostResolved ==
  /\ pc = "findById"
  /\ \E d \in lostItems :
       /\ d.id = lostItemId
       /\ lostItem' = d
  /\ reads' = Append(reads, Read("lost", "document"))
  /\ pc' = "find"
  /\ UNCHANGED <<lostItems, foundItems, lostItemId, potentialMatches, res,
                 scoreVars, suspended,
                 apiVars>>

\* findById resolves to null: 404
MatchesLostNotFound ==
  /\ pc = "findById"
  /\ \A d \in lostItems : d.id # lostItemId
  /\ reads' = Append(reads, Read("lost", "null"))
  /\ res' = errorResponse(404)
  /\ pc' = "done"
  /\ UNCHANGED <<lostItems, foundItems, lostItemId, lostItem, potentialMatches,
                 scoreVars, suspended,
                 apiVars>>

\* findById rejects: the catch block answers 500
MatchesLostReadFails ==
  /\ pc = "findById"
  /\ reads' = Append(reads, Read("lost", "error"))
  /\ res' = errorResponse(500)
  /\ pc' = "done"
  /\ UNCHANGED <<lostItems, foundItems, lostItemId, lostItem, potentialMatches,
                 scoreVars, suspended,
                 apiVars>>

\* variant: the score of every found document saved on the stored document
MatchesFoundSaving ==
  /\ pc = "find"
  /\ \E naturalTies \in BOOLEAN :
       potentialMatches' = findFound(foundItems, matchQuery(lostItem), naturalTies)
  /\ foundItems' = [i \in DOMAIN foundItems |->
                      withScore(foundItems[i],
                                scoreOf(lostItem, hydrate(foundItems[i])))]
  /\ reads' = Append(reads, Read("found", "documents"))
  /\ res' = matchesResponse(lostItem, potentialMatches')
  /\ pc' = "done"
  /\ UNCHANGED <<lostItems, lostItemId, lostItem, scoreVars, suspended, apiVars>>

\* FoundItem.find resolves: score, filter, sort, slice, respond
MatchesFound ==
  /\ pc = "find"
  /\ \E naturalTies \in BOOLEAN :
       potentialMatches' = findFound(foundItems, matchQuery(lostItem), naturalTies)
  /\ reads' = Append(reads, Read("found", "documents"))
  /\ res' = matchesResponse(lostItem, potentialMatches')
  /\ pc' = "done"
  /\ UNCHANGED <<lostItems, foundItems, lostItemId, lostItem, scoreVars, suspended,
                 apiVars>>

\* FoundItem.find rejects: the catch block answers 500
MatchesFoundReadFails ==
  /\ pc = "find"
  /\ reads' = Append(reads, Read("found", "error"))
  /\ res' = errorResponse(500)
  /\ pc' = "done"
  /\ UNCHANGED <<lostItems, foundItems, lostItemId, lostItem, potentialMatches,
                 scoreVars, suspended,
                 apiVars>>

----------------------------------------------------------------------------
(* GET /api/search *)

SearchLimit == 50

\* the paths lostItemSchema declares (timestamps: true adds the last two)
LostItemPaths ==
  {"uniqueIdentifier", "title", "description", "category", "location",
   "dateLost", "reportedBy", "contactInfo", "images", "foundVerification",
   "foundReport", "status", "color", "brand", "size", "additionalDetails",
   "createdAt", "updatedAt"}

\* a date parameter of the query string: absent, a string new Date() parses
\* (to the hour t), or a string it turns into an Invalid Date
NoDate == [kind |-> "absent", t |-> 0]
DateString(t) == [kind |-> "date", t |-> t]
BadDate == [kind |-> "invalid", t |-> 0]

\* req.query with every parameter absent
NoRequest ==
  [q |-> "", category |-> "", color |-> "", brand |-> "", location |-> "",
   dateFrom |-> NoDate, dateTo |-> NoDate, type |-> ""]

\* const results = {} and const suggestions = new Set()
NoAcc == [keys |-> {}, lostItems |-> <<>>, foundItems |-> <<>>, suggestions |-> <<>>]

\* the LostItem collection in natural (insertion) order
naturalOrder(collection) ==
  [i \in 1..Cardinality(collection) |-> CHOOSE d \in collection : d.seq = i]

\* searchQuery (dateField "dateLost") and foundQuery (dateField "dateFound"):
\* a condition is present when its parameter is truthy
searchQuery(r, dateField) ==
  [text |-> r.q, category |-> r.category, color |-> r.color, brand |-> r.brand,
   location |-> r.location, dateField |-> dateField,
   gte |-> r.dateFrom, lte |-> r.dateTo]

\* casting an Invalid Date against a Date path throws a CastError, and the
\* query rejects without reaching the database
castRejects(f) == f.gte.kind = "invalid" \/ f.lte.kind = "invalid"

\* does a stored document satisfy the filter once it is cast against the
\* schema with the given paths (strictQuery drops the other conditions)
searchSelects(doc, f, paths) ==
  LET kept(path) == ~strictQuery \/ path \in paths
      textPaths == {p \in {"title", "description", "additionalDetails"} : kept(p)}
  IN /\ \/ f.text = ""
        \/ textPaths = {}
        \/ \E p \in textPaths : regexTest(<<f.text>>, doc[p])
     /\ f.category = "" \/ ~kept("category") \/ doc.category = f.category
     /\ f.color = "" \/ ~kept("color") \/ regexTest(<<f.color>>, doc.color)
     /\ f.brand = "" \/ ~kept("brand") \/ regexTest(<<f.brand>>, doc.brand)
     /\ f.location = "" \/ ~kept("location") \/ regexTest(<<f.location>>, doc.location)
     /\ f.gte.kind # "date" \/ ~kept(f.dateField) \/ doc[f.dateField] >= f.gte.t
     /\ f.lte.kind # "date" \/ ~kept(f.dateField) \/ doc[f.dateField] <= f.lte.t

\* Model.find(filter).sort({ createdAt: -1 }).limit(50)
searchFind(documents, f, paths) ==
  Take(sortDescBy(SelectSeq(documents, LAMBDA d : searchSelects(d, f, paths)),
                  "createdAt"),
       SearchLimit)

\* variant: the selector not consulted
selectorIncludesAny(type, collection) == TRUE

\* variant: a selector that names neither collection taken as "all"
selectorIncludesElseAll(type, collection) ==
  type = collection \/ type \notin {"lost", "found"}

\* type === "all" || type === <collection> || !type
selectorIncludes(type, collection) == type \in {"all", collection, ""}

\* res.json(body) and res.status(code).json(body)
apiResponse(code, body) == [status |-> code, body |-> body]

InternalError == apiResponse(500, [message |-> "Internal server error"])

\* res.json(results): the keys the handler set and the lists under them
searchResponse(results) ==
  apiResponse(200, [keys |-> results.keys, lostItems |-> results.lostItems,
                    foundItems |-> results.foundItems])

\* the request arrives: the handler builds both filters and awaits the
\* first read its selector asks for; with no read to make it answers {}
SearchRequest(r) ==
  /\ pc = "idle"
  /\ req' = r
  /\ acc' = NoAcc
  /\ IF selectorIncludes(r.type, "lost")
     THEN pc' = "searchLost" /\ res' = res
     ELSE IF selectorIncludes(r.type, "found")
          THEN pc' = "searchFound" /\ res' = res
          ELSE pc' = "done" /\ res' = searchResponse(NoAcc)
  /\ UNCHANGED <<lostItems, foundItems, lostItemId, lostItem, potentialMatches,
                 reads, scoreVars, suspended>>

\* LostItem.find resolves: results.lostItems is set; the handler goes on to
\* the found read or answers
SearchLostResolved ==
  /\ pc = "searchLost"
  /\ ~castRejects(searchQuery(req, "dateLost"))
  /\ acc' = [acc EXCEPT !.keys = @ \cup {"lostItems"},
                        !.lostItems = searchFind(naturalOrder(lostItems),
                                                 searchQuery(req, "dateLost"),
                                                 LostItemPaths)]
  /\ reads' = Append(reads, Read("lost", "documents"))
  /\ IF selectorIncludes(req.type, "found")
     THEN pc' = "searchFound" /\ res' = res
     ELSE pc' = "done" /\ res' = searchResponse(acc')
  /\ UNCHANGED <<lostItems, foundItems, lostItemId, lostItem, potentialMatches,
                 req, scoreVars, suspended>>

\* LostItem.find rejects: the catch block answers 500
SearchLostReadFails ==
  /\ pc = "searchLost"
  /\ reads' = Append(reads, Read("lost", "error"))
  /\ res' = InternalError
  /\ pc' = "done"
  /\ UNCHANGED <<lostItems, foundItems, lostItemId, lostItem, potentialMatches,
                 scoreVars, suspended, apiVars>>

\* FoundItem.find resolves: results.foundItems is set and the handler answers
SearchFoundResolved ==
  /\ pc = "searchFound"
  /\ ~castRejects(searchQuery(req, "dateFound"))
  /\ acc' = [acc EXCEPT !.keys = @ \cup {"foundItems"},
                        !.foundItems = searchFind(foundItems,
                                                  searchQuery(req, "dateFound"),
                                                  FoundItemPaths)]
  /\ reads' = Append(reads, Read("found", "documents"))
  /\ res' = searchResponse(acc')
  /\ pc' = "done"
  /\ UNCHANGED <<lostItems, foundItems, lostItemId, lostItem, potentialMatches,
                 req, scoreVars, suspended>>

\* variant: the results gathered so far are sent when the found read fails
SearchFoundReadFailsPartial ==
  /\ pc = "searchFound"
  /\ reads' = Append(reads, Read("found", "error"))
  /\ res' = searchResponse(acc)
  /\ pc' = "done"
  /\ UNCHANGED <<lostItems, foundItems, lostItemId, lostItem, potentialMatches,
                 scoreVars, suspended, apiVars>>

\* FoundItem.find rejects: the catch block answers 500
SearchFoundReadFails ==
  /\ pc = "searchFound"
  /\ reads' = Append(reads, Read("found", "error"))
  /\ res' = InternalError
  /\ pc' = "done"
  /\ UNCHANGED <<lostItems, foundItems, lostItemId, lostItem, potentialMatches,
                 scoreVars, suspended, apiVars>>

----------------------------------------------------------------------------
(* GET /api/search/suggestions *)

MinQueryLength == 2
TitleLimit == 10
SuggestionLimit == 10

\* Set.prototype.add for each value in turn: a Set keeps insertion order and
\* a value already present keeps its place
RECURSIVE addAll(_, _)
addAll(set, values) ==
  IF values = <<>> THEN set
  ELSE addAll(IF \E i \in DOMAIN set : set[i] = Head(values)
              THEN set
              ELSE Append(set, Head(values)),
              Tail(values))

\* variant: the fragment anchored at the start of the title
matchingTitlesPrefix(documents, query) ==
  LET starts(d) == /\ Len(d.title) >= Len(query)
                   /\ toLowerCase(SubSeq(d.title, 1, Len(query))) = toLowerCase(query)
      hit == Take(SelectSeq(documents, starts), TitleLimit)
  IN [i \in DOMAIN hit |-> hit[i].title]

\* Model.find({ title: { $regex: query, $options: "i" } }).select("title")
\* .limit(10), then item.title of each document, in natural order
matchingTitles(documents, query) ==
  LET hit == Take(SelectSeq(documents, LAMBDA d : regexTest(<<query>>, d.title)),
                  TitleLimit)
  IN [i \in DOMAIN hit |-> hit[i].title]

\* Model.distinct("brand", { brand: { $regex: query, $options: "i" } }), then
\* forEach((brand) => brand && suggestions.add(brand)): the filter is cast
\* against the schema with the given paths, the values are the stored ones
\* (taken here in order of first occurrence)
matchingBrands(documents, query, paths) ==
  LET kept == ~strictQuery \/ "brand" \in paths
      hit == SelectSeq(documents, LAMBDA d : ~kept \/ regexTest(<<query>>, d.brand))
      values == addAll(<<>>, [i \in DOMAIN hit |-> hit[i].brand])
  IN SelectSeq(values, LAMBDA brand : brand # "")

\* variant: slice(-10), the last ten suggestions
suggestionsResponseTail(suggestions) ==
  apiResponse(200,
    [suggestions |->
       SubSeq(suggestions,
              IF Len(suggestions) > SuggestionLimit
              THEN Len(suggestions) - SuggestionLimit + 1 ELSE 1,
              Len(suggestions))])

suggestionsResponse(suggestions) ==
  apiResponse(200, [suggestions |-> Take(suggestions, SuggestionLimit)])

\* variant: only an absent fragment is answered at once
SuggestRequestAnyLength(query, type) ==
  /\ pc = "idle"
  /\ req' = [NoRequest EXCEPT !.q = query, !.type = type]
  /\ acc' = NoAcc
  /\ IF query = ""
     THEN pc' = "done" /\ res' = apiResponse(200, [suggestions |-> <<>>])
     ELSE /\ res' = res
          /\ pc' = IF selectorIncludes(type, "lost") THEN "suggestLostTitles"
                   ELSE IF selectorIncludes(type, "found") THEN "suggestFoundTitles"
                   ELSE "suggestLostBrands"
  /\ UNCHANGED <<lostItems, foundItems, lostItemId, lostItem, potentialMatches,
                 reads, scoreVars, suspended>>

\* the request arrives: a fragment that is absent or shorter than two
\* characters is answered at once, otherwise the first read is awaited
SuggestRequest(query, type) ==
  /\ pc = "idle"
  /\ req' = [NoRequest EXCEPT !.q = query, !.type = type]
  /\ acc' = NoAcc
  /\ IF query = "" \/ Len(query) < MinQueryLength
     THEN pc' = "done" /\ res' = apiResponse(200, [suggestions |-> <<>>])
     ELSE /\ res' = res
          /\ pc' = IF selectorIncludes(type, "lost") THEN "suggestLostTitles"
                   ELSE IF selectorIncludes(type, "found") THEN "suggestFoundTitles"
                   ELSE "suggestLostBrands"
  /\ UNCHANGED <<lostItems, foundItems, lostItemId, lostItem, potentialMatches,
                 reads, scoreVars, suspended>>

\* the lost titles arrive and are added
SuggestLostTitles ==
  /\ pc = "suggestLostTitles"
  /\ acc' = [acc EXCEPT !.suggestions =
               addAll(@, matchingTitles(naturalOrder(lostItems), req.q))]
  /\ reads' = Append(reads, Read("lost", "documents"))
  /\ pc' = IF selectorIncludes(req.type, "found") THEN "suggestFoundTitles"
           ELSE "suggestLostBrands"
  /\ UNCHANGED <<lostItems, foundItems, lostItemId, lostItem, potentialMatches,
                 res, req, scoreVars, suspended>>

\* the found titles arrive and are added
SuggestFoundTitles ==
  /\ pc = "suggestFoundTitles"
  /\ acc' = [acc EXCEPT !.suggestions = addAll(@, matchingTitles(foundItems, req.q))]
  /\ reads' = Append(reads, Read("found", "documents"))
  /\ pc' = "suggestLostBrands"
  /\ UNCHANGED <<lostItems, foundItems, lostItemId, lostItem, potentialMatches,
                 res, req, scoreVars, suspended>>

\* the lost brands arrive and are added
SuggestLostBrands ==
  /\ pc = "suggestLostBrands"
  /\ acc' = [acc EXCEPT !.suggestions =
               addAll(@, matchingBrands(naturalOrder(lostItems), req.q, LostItemPaths))]
  /\ reads' = Append(reads, Read("lost", "values"))
  /\ pc' = "suggestFoundBrands"
  /\ UNCHANGED <<lostItems, foundItems, lostItemId, lostItem, potentialMatches,
                 res, req, scoreVars, suspended>>

\* the found brands arrive and are added; the first ten suggestions are sent
SuggestFoundBrands ==
  /\ pc = "suggestFoundBrands"
  /\ acc' = [acc EXCEPT !.suggestions =
               addAll(@, matchingBrands(foundItems, req.q, FoundItemPaths))]
  /\ reads' = Append(reads, Read("found", "values"))
  /\ res' = suggestionsResponse(acc'.suggestions)
  /\ pc' = "done"
  /\ UNCHANGED <<lostItems, foundItems, lostItemId, lostItem, potentialMatches,
                 req, scoreVars, suspended>>

\* the collection each awaited read of the handler goes to
suggestStages ==
  [suggestLostTitles |-> "lost", suggestFoundTitles |-> "found",
   suggestLostBrands |-> "lost", suggestFoundBrands |-> "found"]

\* the awaited read rejects: the catch block answers 500
SuggestReadFails ==
  /\ pc \in DOMAIN suggestStages
  /\ reads' = Append(reads, Read(suggestStages[pc], "error"))
  /\ res' = InternalError
  /\ pc' = "done"
  /\ UNCHANGED <<lostItems, foundItems, lostItemId, lostItem, potentialMatches,
                 scoreVars, suspended, apiVars>>

----------------------------------------------------------------------------
(* Repository contents the requests run against *)

MaxFound == 3
MidSize == 12
BigSize == 22

LostDoc(id, category, status, color, brand, size, title, dateLost) ==
  [id |-> id, category |-> category, status |-> status, color |-> color,
   brand |-> brand, size |-> size, title |-> title, dateLost |-> dateLost]

FoundDoc(category, status, color, brand, size, title, description, dateFound) ==
  [category |-> category, status |-> status, color |-> color, brand |-> brand,
   size |-> size, title |-> title, description |-> description,
   dateFound |-> dateFound]

LostRepo ==
  {LostDoc("L1", "Electronics", "active", "Black", "Apple", "", "iPhone 14 Pro", 0),
   LostDoc("L2", "Keys", "active", "", "", "", "key on red ring", 0),
   LostDoc("L3", "Electronics", "found", "", "", "", "PC", 800),
   LostDoc("L4", "Electronics", "active", "Black", "", "", "TV", 0)}

\* ids a request may carry: the stored ones, one that is stored nowhere, none
RequestIds == {d.id : d \in LostRepo} \cup {"L9", ""}

\* stored found documents; a document written through the FoundItem model
\* carries no status, color, brand or size (the fourth one)
FoundPool ==
  {FoundDoc("Electronics", "unclaimed", "Black", "Apple", "", "iPhone 14", "Black phone", 72),
   FoundDoc("Electronics", "claimed", "Black", "Apple", "", "iPhone 14", "Apple phone", 0),
   FoundDoc("Accessories", "unclaimed", "", "", "", "key on red ring", "ring", 0),
   FoundDoc("Electronics", "", "", "", "", "Phone charger", "white charger", 800),
   FoundDoc("Keys", "unclaimed", "", "", "", "red key", "a key", 24)}

SeqsUpTo(S, n) == UNION {[1..k -> S] : k \in 0..n}

\* the collection of n documents that repeats the documents of s in turn,
\* the i-th stored document having id i
Cycle(s, n) ==
  [i \in 1..n |->
     [f \in DOMAIN s[1] \cup {"id"} |->
        IF f = "id" THEN i ELSE s[((i - 1) % Len(s)) + 1][f]]]

FoundRepos ==
  {<<>>} \cup
  UNION {{Cycle(s, n) : n \in {Len(s), MidSize, BigSize}} :
           s \in SeqsUpTo(FoundPool, MaxFound) \ {<<>>}}

ScoreLostPool ==
  {LostDoc("L", "Electronics", "active", color, brand, size, title, 0) :
     color \in {"", "blue", "Dark Blue"}, brand \in {"", "Apple"},
     size \in {"", "M"}, title \in {"iPhone 14 Pro", "red red bag"}}

ScoreFoundPool ==
  {FoundDoc(category, "unclaimed", color, brand, size, title, "", dateFound) :
     category \in {"Electronics", "Keys"}, color \in {"", "blue", "Dark Blue"},
     brand \in {"", "Apple", "apple inc"}, size \in {"", "M"},
     title \in {"iPhone 14", "bag red red", "RED Bag"},
     dateFound \in {0, 168, 169, 720, 721}}

\* documents with every field GET /api/search and /suggestions look at; seq
\* is the place in natural order, given when the document enters a collection
LostRecord(category, status, color, brand, title, description, additionalDetails, location, dateLost) ==
  [id |-> "", seq |-> 0, createdAt |-> 0, category |-> category,
   status |-> status, color |-> color, brand |-> brand, size |-> "",
   title |-> title, description |-> description,
   additionalDetails |-> additionalDetails, location |-> location,
   dateLost |-> dateLost]

FoundRecord(category, status, color, brand, title, description, additionalDetails, location, dateFound) ==
  [id |-> "", seq |-> 0, createdAt |-> 0, category |-> category,
   status |-> status, color |-> color, brand |-> brand, size |-> "",
   title |-> title, description |-> description,
   additionalDetails |-> additionalDetails, location |-> location,
   dateFound |-> dateFound]

\* documents inserted one after the other: the i-th gets id i and a later
\* createdAt than the ones before it
inserted(s) ==
  [i \in DOMAIN s |-> [s[i] EXCEPT !.id = ToString(i), !.seq = i, !.createdAt = i]]

Range(s) == {s[i] : i \in DOMAIN s}

MaxLost == 2
MaxApiFound == 2
Duplicates == 10
Numbered == 10

LostSamples ==
  <<LostRecord("Electronics", "active", "Black", "Apple", "iPhone 14 Pro",
               "Black iPhone with a clear case", "scratch on the back",
               "Library 2nd Floor", 0),
    LostRecord("Accessories", "active", "Blue", "Jansport", "Blue Backpack",
               "Navy backpack", "", "Student Center", 120),
    LostRecord("Electronics", "found", "", "", "Phone charger",
               "white charger", "black cable", "Library", 72)>>

\* the first is a raw document carrying fields the FoundItem model never
\* writes, the second is one POST /api/found-items can have written, the
\* third is raw again
FoundSamples ==
  <<FoundRecord("Electronics", "unclaimed", "Black", "Apple", "iPhone 14",
                "Black phone found near the desk", "", "Library", 72),
    FoundRecord("Accessories", "", "", "", "Silver Watch",
                "watch with a black strap", "", "Gym", 168),
    FoundRecord("Electronics", "claimed", "White", "Samsung", "Phone charger",
                "charger", "apple sticker", "Cafeteria", 96)>>

\* a collection in which one title is repeated before another one appears
repeated(first, n, last) == [i \in 1..(n + 1) |-> IF i <= n THEN first ELSE last]

\* n lost items whose titles all differ and all contain "Pho", of a brand
\* that contains it too
numbered(n) ==
  [i \in 1..n |-> [LostSamples[3] EXCEPT !.title = "Phone " \o ToString(i),
                                         !.brand = "Phonak"]]

LostCollections ==
  {Range(inserted(s)) : s \in SeqsUpTo(Range(LostSamples), MaxLost)}
  \cup {Range(inserted(LostSamples)),
        Range(inserted(repeated(LostSamples[3], Duplicates, LostSamples[1]))),
        Range(inserted(numbered(Numbered)))}

FoundCollections ==
  {inserted(s) : s \in SeqsUpTo(Range(FoundSamples), MaxApiFound)}
  \cup {inserted(FoundSamples)}

----------------------------------------------------------------------------
(* Specifications *)

IdleMatch ==
  /\ pc = "idle"
  /\ lostItemId = ""
  /\ lostItem = NoItem
  /\ potentialMatches = <<>>
  /\ res = NoResponse
  /\ reads = <<>>
  /\ req = NoRequest
  /\ acc = NoAcc

Init ==
  /\ suspended = <<>>
  /\ lostItems = LostRepo
  /\ foundItems \in FoundRepos
  /\ IdleMatch
  /\ sLost = NoItem
  /\ sFound = NoItem
  /\ sScore = -1

Next ==
  \/ \E id \in RequestIds : MatchesRequest(id)
  \/ MatchesLostResolved
  \/ MatchesLostNotFound
  \/ MatchesLostReadFails
  \/ MatchesFound
  \/ MatchesFoundReadFails

Spec == Init /\ [][Next]_vars

\* the scorer applied to one pair of records
ScorePair ==
  /\ sScore = -1
  /\ sScore' = scoreOf(sLost, sFound)
  /\ UNCHANGED <<matchVars, apiVars, suspended, sLost, sFound>>

InitScore ==
  /\ suspended = <<>>
  /\ lostItems = LostRepo
  /\ foundItems = <<>>
  /\ IdleMatch
  /\ sLost \in ScoreLostPool
  /\ sFound \in ScoreFoundPool
  /\ sScore = -1

NextScore == ScorePair

SpecScore == InitScore /\ [][NextScore]_vars

\* query strings of GET /api/search: every parameter absent or given
SearchRequests ==
  [q : {"", "phone"}, category : {"", "Electronics"}, color : {"", "black"},
   brand : {"", "apple"}, location : {"", "library"},
   dateFrom : {NoDate, DateString(48), BadDate},
   dateTo : {NoDate, DateString(100)},
   type : {"", "all", "lost", "found", "items"}]

\* fragments and selectors of GET /api/search/suggestions
Fragments == {"", "P", "Pho", "app", "sam"}
Selectors == {"", "all", "lost", "found", "items"}

\* ids of GET /api/search/matches against the sample collections
SampleRequestIds == {"", "1", "3", "9"}

IdleScorer ==
  /\ sLost = NoItem
  /\ sFound = NoItem
  /\ sScore = -1

NextSearch ==
  \/ \E r \in SearchRequests : SearchRequest(r)
  \/ SearchLostResolved
  \/ SearchLostReadFails
  \/ SearchFoundResolved
  \/ SearchFoundReadFails

InitSearch ==
  /\ suspended = <<>>
  /\ lostItems = Range(inserted(LostSamples))
  /\ foundItems \in FoundCollections
  /\ IdleMatch
  /\ IdleScorer

SpecSearch == InitSearch /\ [][NextSearch]_vars

NextSuggest ==
  \/ \E query \in Fragments, type \in Selectors : SuggestRequest(query, type)
  \/ SuggestLostTitles
  \/ SuggestFoundTitles
  \/ SuggestLostBrands
  \/ SuggestFoundBrands
  \/ SuggestReadFails

InitSuggest ==
  /\ suspended = <<>>
  /\ lostItems \in LostCollections
  /\ foundItems \in FoundCollections
  /\ IdleMatch
  /\ IdleScorer

SpecSuggest == InitSuggest /\ [][NextSuggest]_vars

\* the three endpoints of the router over one repository
NextApi ==
  \/ \E r \in SearchRequests : SearchRequest(r)
  \/ SearchLostResolved
  \/ SearchLostReadFails
  \/ SearchFoundResolved
  \/ SearchFoundReadFails
  \/ \E query \in Fragments, type \in Selectors : SuggestRequest(query, type)
  \/ SuggestLostTitles
  \/ SuggestFoundTitles
  \/ SuggestLostBrands
  \/ SuggestFoundBrands
  \/ SuggestReadFails
  \/ \E id \in SampleRequestIds : MatchesRequest(id)
  \/ MatchesLostResolved
  \/ MatchesLostNotFound
  \/ MatchesLostReadFails
  \/ MatchesFound
  \/ MatchesFoundReadFails

InitApi ==
  /\ suspended = <<>>
  /\ lostItems = Range(inserted(LostSamples))
  /\ foundItems \in {<<>>, inserted(FoundSamples)}
  /\ IdleMatch
  /\ IdleScorer

SpecApi == InitApi /\ [][NextApi]_vars

----------------------------------------------------------------------------
(* Several requests in flight *)

Invocations == 2

\* the locals of the invocation that is running: every one of them is a
\* const or a parameter of the handler's closure
context ==
  [pc |-> pc, lostItemId |-> lostItemId, lostItem |-> lostItem,
   potentialMatches |-> potentialMatches, res |-> res, reads |-> reads,
   req |-> req, acc |-> acc]

IdleContext ==
  [pc |-> "idle", lostItemId |-> "", lostItem |-> NoItem,
   potentialMatches |-> <<>>, res |-> NoResponse, reads |-> <<>>,
   req |-> NoRequest, acc |-> NoAcc]

\* variant: results and suggestions kept in one module-level object that
\* every invocation uses
ResumeSharingAcc(i) ==
  /\ i \in DOMAIN suspended
  /\ suspended' = [suspended EXCEPT ![i] = context]
  /\ pc' = suspended[i].pc
  /\ lostItemId' = suspended[i].lostItemId
  /\ lostItem' = suspended[i].lostItem
  /\ potentialMatches' = suspended[i].potentialMatches
  /\ res' = suspended[i].res
  /\ reads' = suspended[i].reads
  /\ req' = suspended[i].req
  /\ UNCHANGED <<lostItems, foundItems, acc, scoreVars>>

\* the running invocation is at an await (or has not started, or has
\* answered): the event loop runs another invocation, which finds its own
\* locals as it left them
Resume(i) ==
  /\ i \in DOMAIN suspended
  /\ suspended' = [suspended EXCEPT ![i] = context]
  /\ pc' = suspended[i].pc
  /\ lostItemId' = suspended[i].lostItemId
  /\ lostItem' = suspended[i].lostItem
  /\ potentialMatches' = suspended[i].potentialMatches
  /\ res' = suspended[i].res
  /\ reads' = suspended[i].reads
  /\ req' = suspended[i].req
  /\ acc' = suspended[i].acc
  /\ UNCHANGED <<lostItems, foundItems, scoreVars>>

\* the requests that overlap
OverlapSearchRequests ==
  {[NoRequest EXCEPT !.q = "phone"],
   [NoRequest EXCEPT !.location = "library", !.type = "found"]}

OverlapFragments == {"Pho"}
OverlapSelectors == {"", "found"}
OverlapRequestIds == {"1", "9"}

NextOverlap ==
  \/ \E r \in OverlapSearchRequests : SearchRequest(r)
  \/ SearchLostResolved
  \/ SearchLostReadFails
  \/ SearchFoundResolved
  \/ SearchFoundReadFails
  \/ \E query \in OverlapFragments, type \in OverlapSelectors :
       SuggestRequest(query, type)
  \/ SuggestLostTitles
  \/ SuggestFoundTitles
  \/ SuggestLostBrands
  \/ SuggestFoundBrands
  \/ SuggestReadFails
  \/ \E id \in OverlapRequestIds : MatchesRequest(id)
  \/ MatchesLostResolved
  \/ MatchesLostNotFound
  \/ MatchesLostReadFails
  \/ MatchesFound
  \/ MatchesFoundReadFails
  \/ \E i \in 1..(Invocations - 1) : Resume(i)

InitOverlap ==
  /\ suspended = [i \in 1..(Invocations - 1) |-> IdleContext]
  /\ lostItems = Range(inserted(LostSamples))
  /\ foundItems = inserted(FoundSamples)
  /\ IdleMatch
  /\ IdleScorer

SpecOverlap == InitOverlap /\ [][NextOverlap]_vars

----------------------------------------------------------------------------
(* Properties of GET /api/search/matches *)

Responded == pc = "done" /\ res.status = 200

ReadsOf(collection) == {i \in DOMAIN reads : reads[i].collection = collection}

\* the position of a returned match in the retrieval order
RetrievalIndex(m) ==
  CHOOSE k \in DOMAIN potentialMatches : potentialMatches[k].id = m.id

\* C1: every found item in the matches of a successful findMatches has the
\* category of the resolved lost item.
C1_MatchesShareCategory ==
  Responded =>
    \A i \in DOMAIN res.matches : res.matches[i].category = res.lostItem.category

\* a 200 response with a match, over a collection that also stores a found
\* item of another category carrying the lost title's words
C1_Witness ==
  /\ Responded
  /\ Len(res.matches) > 0
  /\ \E k \in DOMAIN foundItems :
       /\ foundItems[k].category # res.lostItem.category
       /\ foundItems[k].title = res.lostItem.title

\* C2: a found item whose status is not "unclaimed" when the candidates are
\* read never appears in the returned matches.
C2_OnlyUnclaimedReturned ==
  Responded =>
    \A i \in DOMAIN res.matches : res.matches[i].status = "unclaimed"

\* C3: every returned match has matchScore >= 30.
C3_ScoreAtLeastThreshold ==
  Responded =>
    \A i \in DOMAIN res.matches : res.matches[i].matchScore >= 30

\* a 200 response whose matches include one scoring exactly 30 and one above
C3_Witness ==
  /\ Responded
  /\ \E i \in DOMAIN res.matches : res.matches[i].matchScore = 30
  /\ \E i \in DOMAIN res.matches : res.matches[i].matchScore > 30

\* C4: the matches are ordered by non-increasing matchScore, among equal
\* scores by non-increasing dateFound, and among equal scores and dates in
\* the order the repository returned them.
C4_MatchesOrdered ==
  Responded =>
    \A i, j \in DOMAIN res.matches :
      i < j =>
        LET a == res.matches[i]
            b == res.matches[j]
        IN /\ a.matchScore >= b.matchScore
           /\ a.matchScore = b.matchScore => a.dateFound >= b.dateFound
           /\ (a.matchScore = b.matchScore /\ a.dateFound = b.dateFound)
                => RetrievalIndex(a) < RetrievalIndex(b)

\* a 200 response where the sort moved a match ahead of a more recent one,
\* with two matches of equal score and different dates and two of equal
\* score and date
C4_Witness ==
  /\ Responded
  /\ \E i, j \in DOMAIN res.matches :
       /\ i < j
       /\ res.matches[i].matchScore > res.matches[j].matchScore
       /\ res.matches[i].dateFound < res.matches[j].dateFound
  /\ \E i, j \in DOMAIN res.matches :
       /\ i < j
       /\ res.matches[i].matchScore = res.matches[j].matchScore
       /\ res.matches[i].dateFound > res.matches[j].dateFound
  /\ \E i, j \in DOMAIN res.matches :
       /\ i < j
       /\ res.matches[i].matchScore = res.matches[j].matchScore
       /\ res.matches[i].dateFound = res.matches[j].dateFound

\* C5: a successful findMatches returns at most 10 matches together with
\* the stored lost item that carries the requested id.
C5_AtMostTenWithLostItem ==
  Responded =>
    /\ Len(res.matches) <= 10
    /\ res.lostItem \in lostItems
    /\ res.lostItem.id = lostItemId

\* a 200 response cut to 10 matches out of more candidates
C5_Witness ==
  /\ Responded
  /\ Len(res.matches) = 10
  /\ Len(potentialMatches) > 10

C7_ScenarioScores105 ==
  (/\ Responded
   /\ res.lostItem = LostDoc("L1", "Electronics", "active", "Black", "Apple", "",
                             "iPhone 14 Pro", 0)
   /\ Len(foundItems) = 1
   /\ \A f \in {"category", "status", "color", "brand", "size", "title", "dateFound"} :
        foundItems[1][f] =
          FoundDoc("Electronics", "unclaimed", "Black", "Apple", "", "iPhone 14",
                   "Black phone", 72)[f])
    => /\ Len(res.matches) = 1
       /\ res.matches[1].id = foundItems[1].id
       /\ res.matches[1].matchScore = 105

----------------------------------------------------------------------------
(* Properties of the scorer *)

Scored == sScore # -1

\* case-insensitive containment of needle in hay
ContainsCI(hay, needle) ==
  LET h == toLowerCase(hay)
      n == toLowerCase(needle)
  IN \E a \in 1..(Len(h) + 1) :
       /\ a + Len(n) - 1 <= Len(h)
       /\ SubSeq(h, a, a + Len(n) - 1) = n

\* a field signal applies when both values are non-empty and the found
\* value contains the lost value
SignalApplies(lostValue, foundValue) ==
  lostValue # "" /\ foundValue # "" /\ ContainsCI(foundValue, lostValue)

\* the words of the lost title, each occurrence counted, that are words of
\* the found title (case-folded)
SharedTitleWords(lost, found) ==
  LET lw == split(toLowerCase(lost.title))
      fw == split(toLowerCase(found.title))
      Occurs(w) == \E j \in 1..Len(fw) : fw[j] = w
      RECURSIVE Count(_)
      Count(n) == IF n = 0 THEN 0
                  ELSE Count(n - 1) + (IF Occurs(lw[n]) THEN 1 ELSE 0)
  IN Count(Len(lw))

Points(applies, points) == IF applies THEN points ELSE 0

\* the temporal signal on the distance in hours between the two dates
TemporalPoints(lost, found) ==
  LET d == found.dateFound - lost.dateLost
      hours == IF d >= 0 THEN d ELSE 0 - d
  IN IF hours <= 7 * 24 THEN 10 ELSE IF hours <= 30 * 24 THEN 5 ELSE 0

\* the sum of the signals other than the named field's
SignalsExcept(lost, found, field) ==
    Points(found.category = lost.category, 30)
  + Points(field # "color" /\ SignalApplies(lost.color, found.color), 25)
  + Points(field # "brand" /\ SignalApplies(lost.brand, found.brand), 25)
  + Points(field # "size" /\ SignalApplies(lost.size, found.size), 15)
  + 5 * SharedTitleWords(lost, found)
  + TemporalPoints(lost, found)

IdenticalPair ==
  /\ sFound.category = sLost.category
  /\ sFound.color = sLost.color
  /\ sFound.brand = sLost.brand
  /\ sFound.size = sLost.size
  /\ sFound.dateFound = sLost.dateLost

----------------------------------------------------------------------------
(* Properties of the three endpoints together *)

\* a response of GET /api/search, of /suggestions, of /matches
IsSearchBody == "body" \in DOMAIN res /\ "keys" \in DOMAIN res.body
IsSuggestBody == "body" \in DOMAIN res /\ "suggestions" \in DOMAIN res.body
IsMatchesBody == "matches" \in DOMAIN res

\* C11: search, suggest and findMatches never create, modify or delete a
\* lost-item or found-item record: no step of any of the three handlers,
\* whether the request ends in success or in failure, changes either
\* collection.
C11_RepositoryUnchanged ==
  [][lostItems' = lostItems /\ foundItems' = foundItems]_vars

\* a findMatches request answered with matches over a non-empty repository
C11_Witness ==
  /\ pc = "done"
  /\ IsMatchesBody
  /\ res.status = 200
  /\ Len(res.matches) > 0
  /\ Len(reads) = 2

----------------------------------------------------------------------------
(* Properties of GET /api/search/suggestions *)

SuggestResponded == pc = "done" /\ IsSuggestBody /\ res.status = 200

\* C12: suggest with an absent fragment or a fragment shorter than two
\* characters answers with the empty suggestion list and issues no
\* repository read at all.
C12_ShortFragmentReadsNothing ==
  (pc # "idle" /\ Len(req.q) < MinQueryLength)
    => /\ pc = "done"
       /\ res = apiResponse(200, [suggestions |-> <<>>])
       /\ reads = <<>>

\* a one-character fragment that a stored lost title contains, answered
C12_Witness ==
  /\ pc = "done"
  /\ req.q = "P"
  /\ \E d \in lostItems : regexTest(<<req.q>>, d.title)

\* the candidates of each kind for the fragment of the request
TitleCandidates(documents) ==
  {d.title : d \in {x \in documents : ContainsCI(x.title, req.q)}}

BrandCandidates(documents) ==
  {d.brand : d \in {x \in documents : x.brand # "" /\ ContainsCI(x.brand, req.q)}}

\* the first of the four groups, in the order lost titles, found titles,
\* lost brands, found brands, that holds the string (5 when none does);
\* titles count for the collections the selector includes
GroupRank(s) ==
  IF selectorIncludes(req.type, "lost") /\ s \in TitleCandidates(lostItems) THEN 1
  ELSE IF selectorIncludes(req.type, "found") /\ s \in TitleCandidates(Range(foundItems))
  THEN 2
  ELSE IF s \in BrandCandidates(lostItems) THEN 3
  ELSE IF s \in BrandCandidates(Range(foundItems)) THEN 4
  ELSE 5

\* C13: suggest returns at most 10 strings, pairwise distinct, each of them
\* a matching lost title, a matching found title, a matching lost brand or
\* a matching found brand, and in that order of groups.
C13_SuggestionsOrderedDistinct ==
  SuggestResponded =>
    LET s == res.body.suggestions
    IN /\ Len(s) <= SuggestionLimit
       /\ \A i, j \in DOMAIN s : i < j => s[i] # s[j]
       /\ \A i \in DOMAIN s : GroupRank(s[i]) <= 4
       /\ \A i, j \in DOMAIN s : i < j => GroupRank(s[i]) <= GroupRank(s[j])

\* every title and every brand stored in a collection
StoredStrings(documents) ==
  {d.title : d \in documents} \cup {d.brand : d \in documents}

\* C14: suggest draws brands from a collection only when the selector
\* includes that collection: with the selector "lost" every suggestion is a
\* title or a brand of a lost item, with the selector "found" every
\* suggestion is a title or a brand of a found item.
C14_BrandsFollowSelector ==
  SuggestResponded =>
    LET s == res.body.suggestions
    IN /\ req.type = "lost" => \A i \in DOMAIN s : s[i] \in StoredStrings(lostItems)
       /\ req.type = "found" =>
            \A i \in DOMAIN s : s[i] \in StoredStrings(Range(foundItems))

\* the strings the fragment of the request matches, titles and brands of
\* both collections together
AllCandidates ==
  TitleCandidates(lostItems) \cup TitleCandidates(Range(foundItems))
  \cup BrandCandidates(lostItems) \cup BrandCandidates(Range(foundItems))

\* every title of either collection that contains the fragment is suggested
EveryMatchingTitleSuggested ==
  \A t \in TitleCandidates(lostItems) \cup TitleCandidates(Range(foundItems)) :
    \E i \in DOMAIN res.body.suggestions : res.body.suggestions[i] = t

\* the number of stored documents whose title contains the fragment
TitleHits(documents) ==
  Cardinality({d \in documents : ContainsCI(d.title, req.q)})

----------------------------------------------------------------------------
(* Properties of GET /api/search *)

SearchResponded == pc = "done" /\ IsSearchBody /\ res.status = 200

\* a filter of the request is supplied and the document satisfies it
InRange(date) ==
  /\ req.dateFrom.kind = "date" => date >= req.dateFrom.t
  /\ req.dateTo.kind = "date" => date <= req.dateTo.t

Satisfies(doc, date) ==
  /\ req.q # "" => \/ ContainsCI(doc.title, req.q)
                   \/ ContainsCI(doc.description, req.q)
                   \/ ContainsCI(doc.additionalDetails, req.q)
  /\ req.category # "" => doc.category = req.category
  /\ req.color # "" => ContainsCI(doc.color, req.color)
  /\ req.brand # "" => ContainsCI(doc.brand, req.brand)
  /\ req.location # "" => ContainsCI(doc.location, req.location)
  /\ InRange(date)

\* C16: a record is selected by search if and only if it satisfies the
\* conjunction of the supplied filters: the free-text term in title,
\* description or additionalDetails, the category exactly, color, brand and
\* location by case-insensitive containment, and the collection's own date
\* within the inclusive range.
C16_SelectedIffAllFiltersHold ==
  SearchResponded =>
    /\ "lostItems" \in res.body.keys =>
         Range(res.body.lostItems) = {d \in lostItems : Satisfies(d, d.dateLost)}
    /\ "foundItems" \in res.body.keys =>
         Range(res.body.foundItems) =
           {d \in Range(foundItems) : Satisfies(d, d.dateFound)}

\* C17: with the selector "lost" search reads and returns only lostItems,
\* with "found" only foundItems, and with the selector absent or "all" it
\* returns both.
C17_SelectorChoosesCollections ==
  /\ (pc # "idle" /\ req.type = "lost") =>
       /\ ReadsOf("found") = {}
       /\ (SearchResponded => res.body.keys = {"lostItems"})
  /\ (pc # "idle" /\ req.type = "found") =>
       /\ ReadsOf("lost") = {}
       /\ (SearchResponded => res.body.keys = {"foundItems"})
  /\ (pc # "idle" /\ req.type \in {"", "all"} /\ SearchResponded) =>
       /\ res.body.keys = {"lostItems", "foundItems"}
       /\ reads = <<Read("lost", "documents"), Read("found", "documents")>>

\* "lost" answered with lost items while a found item satisfies the same
\* filters and is neither read nor returned
C17_Witness ==
  /\ SearchResponded
  /\ req.type = "lost"
  /\ Len(res.body.lostItems) > 0
  /\ \E d \in Range(foundItems) : Satisfies(d, d.dateFound)
  /\ res.body.foundItems = <<>>

\* C18: a search whose dateFrom or dateTo does not parse as a date is
\* rejected with a validation error, an outcome other than the internal
\* error and other than success, and no repository read is issued for it.
C18_BadDateIsValidationError ==
  (pc # "idle" /\ (req.dateFrom.kind = "invalid" \/ req.dateTo.kind = "invalid"))
    => /\ pc = "done"
       /\ res.status # 200
       /\ res # InternalError
       /\ reads = <<>>

----------------------------------------------------------------------------
(* Failed reads, on the three endpoints *)

\* C19: a repository read that fails, in search, suggest or findMatches,
\* ends the request with the internal-error response: the failed read is
\* the last one issued (no retry, no further read) and the response carries
\* nothing of what earlier reads returned.
C19_FailedReadIsInternalError ==
  \A i \in DOMAIN reads :
    reads[i].outcome = "error" =>
      /\ i = Len(reads)
      /\ pc = "done"
      /\ res = IF IsMatchesBody THEN errorResponse(500) ELSE InternalError

\* a search whose lost read returned documents and whose found read failed
C19_Witness ==
  /\ pc = "done"
  /\ Len(reads) = 2
  /\ reads[1] = Read("lost", "documents")
  /\ reads[2] = Read("found", "error")
  /\ Len(acc.lostItems) > 0
  /\ res = InternalError

----------------------------------------------------------------------------
(* The lost item's status in GET /api/search/matches *)

\* C20, as stated: findMatches produces matches only for a lost item whose
\* status is "active".
C20_MatchesOnlyForActive ==
  (Responded /\ Len(res.matches) > 0) => lostItem.status = "active"

\* C20, amended: findMatches does not look at the lost item's status: a
\* stored lost item of any status is resolved, and when no read fails the
\* response is the one the same item would get with the status "active".
C20_MatchesWhateverStatus ==
  (/\ pc = "done"
   /\ Len(reads) >= 1
   /\ reads[1] = Read("lost", "document")
   /\ \A i \in DOMAIN reads : reads[i].outcome # "error")
    => /\ Responded
       /\ res.lostItem = lostItem
       /\ res.matches =
            matchesResponse([lostItem EXCEPT !.status = "active"],
                            potentialMatches).matches

\* matches returned for a lost item whose status is "found"
C20_Witness ==
  /\ Responded
  /\ lostItem.status = "found"
  /\ Len(res.matches) > 0

----------------------------------------------------------------------------
(* Requests in flight together *)

\* what each request is answered when it is the only one in flight
AloneMatches(id) ==
  IF id = "" THEN {errorResponse(400)}
  ELSE {errorResponse(500)}
       \cup (IF \A d \in lostItems : d.id # id THEN {errorResponse(404)}
             ELSE {matchesResponse(d, findFound(foundItems, matchQuery(d), ties)) :
                     d \in {x \in lostItems : x.id = id}, ties \in BOOLEAN})

AloneSearch(r) ==
  searchResponse(
    [keys |-> {k \in {"lostItems", "foundItems"} :
                 selectorIncludes(r.type, IF k = "lostItems" THEN "lost" ELSE "found")},
     lostItems |-> IF selectorIncludes(r.type, "lost")
                   THEN searchFind(naturalOrder(lostItems),
                                   searchQuery(r, "dateLost"), LostItemPaths)
                   ELSE <<>>,
     foundItems |-> IF selectorIncludes(r.type, "found")
                    THEN searchFind(foundItems, searchQuery(r, "dateFound"),
                                    FoundItemPaths)
                    ELSE <<>>])

AloneSuggest(r) ==
  IF r.q = "" \/ Len(r.q) < MinQueryLength
  THEN apiResponse(200, [suggestions |-> <<>>])
  ELSE suggestionsResponse(
         addAll(addAll(addAll(addAll(<<>>,
           IF selectorIncludes(r.type, "lost")
           THEN matchingTitles(naturalOrder(lostItems), r.q) ELSE <<>>),
           IF selectorIncludes(r.type, "found")
           THEN matchingTitles(foundItems, r.q) ELSE <<>>),
           matchingBrands(naturalOrder(lostItems), r.q, LostItemPaths)),
           matchingBrands(foundItems, r.q, FoundItemPaths)))

AnsweredAsAlone(c) ==
  c.pc = "done" =>
    IF "matches" \in DOMAIN c.res THEN c.res \in AloneMatches(c.lostItemId)
    ELSE IF "keys" \in DOMAIN c.res.body THEN c.res = AloneSearch(c.req)
    ELSE IF "suggestions" \in DOMAIN c.res.body THEN c.res = AloneSuggest(c.req)
    ELSE /\ c.res = InternalError
         /\ c.reads # <<>>
         /\ c.reads[Len(c.reads)].outcome = "error"

\* C21: invocations of search, suggest and findMatches in flight together
\* share no mutable state: however their steps interleave at the awaited
\* reads, over an unchanged repository, each one is answered exactly what
\* it is answered when it runs alone.
C21_InterleavedAsAlone ==
  /\ AnsweredAsAlone(context)
  /\ \A i \in DOMAIN suspended : AnsweredAsAlone(suspended[i])

\* a suggestions request and a search request, both in flight at the same
\* time after a read each, and the suggestions request answered later
C21_Witness ==
  /\ pc = "done"
  /\ IsSuggestBody
  /\ Len(res.body.suggestions) > 1
  /\ \E i \in DOMAIN suspended :
       /\ suspended[i].pc = "searchFound"
       /\ Len(suspended[i].acc.lostItems) > 0

----------------------------------------------------------------------------
(* More properties of the scorer and of GET /api/search/matches *)

\* C22: the title-overlap signal adds 5 points per shared case-folded word
\* of the lost title and the found title, a repeated word counting once per
\* occurrence in the lost title: the score exceeds the score of the same
\* pair with a blank lost title by 5 times that number of words.
C22_FivePointsPerSharedWord ==
  Scored =>
    sScore - scoreOf([sLost EXCEPT !.title = ""], sFound)
      = 5 * SharedTitleWords(sLost, sFound)

\* "red red bag" against "bag red red": "red" repeats in both titles and
\* the signal is worth 15 points
C22_Witness ==
  /\ Scored
  /\ sLost.title = "red red bag"
  /\ sFound.title = "bag red red"
  /\ sScore - scoreOf([sLost EXCEPT !.title = ""], sFound) = 15

\* the words of the lost title of at least three characters
LongTitleWords(lost) ==
  {split(lost.title)[n] : n \in {m \in DOMAIN split(lost.title) :
                                   Len(split(lost.title)[m]) >= 3}}

\* the lost item offers nothing to discriminate on
NoDiscriminator(lost) ==
  lost.color = "" /\ lost.brand = "" /\ lost.size = "" /\ LongTitleWords(lost) = {}

\* the found item satisfies at least one optional discriminator condition
Discriminates(lost, found) ==
  \/ lost.color # "" /\ ContainsCI(found.color, lost.color)
  \/ lost.brand # "" /\ ContainsCI(found.brand, lost.brand)
  \/ lost.size # "" /\ ContainsCI(found.size, lost.size)
  \/ \E w \in LongTitleWords(lost) :
       ContainsCI(found.title, w) \/ ContainsCI(found.description, w)

CoarsePredicate(lost, found) ==
  /\ found.status = "unclaimed"
  /\ found.category = lost.category
  /\ NoDiscriminator(lost) \/ Discriminates(lost, found)

\* C23: the candidates findMatches retrieves are the found items that
\* satisfy the coarse predicate: status "unclaimed" and the lost item's
\* category when the lost item has no color, brand, size or title word of
\* at least 3 characters, and otherwise at least one discriminator
\* condition in addition (up to the limit of 20 candidates).
C23_CoarsePredicate ==
  Responded =>
    /\ \A k \in DOMAIN potentialMatches :
         CoarsePredicate(lostItem, potentialMatches[k])
    /\ Len(potentialMatches) < CandidateLimit =>
         \A k \in DOMAIN foundItems :
           CoarsePredicate(lostItem, foundItems[k]) =>
             \E j \in DOMAIN potentialMatches :
               potentialMatches[j].id = foundItems[k].id

\* the stored found items that were not retrieved as candidates
NotRetrieved ==
  {k \in DOMAIN foundItems :
     \A j \in DOMAIN potentialMatches : potentialMatches[j].id # foundItems[k].id}

\* C24: findMatches scores at most 20 candidates, newest dateFound first,
\* and they are the found items with the most recent dateFound among those
\* that satisfy the coarse predicate: each candidate satisfies it, and an
\* item that satisfies it is left out only when 20 candidates at least as
\* recent were retrieved.
C24_TwentyNewestCandidates ==
  Responded =>
    /\ Len(potentialMatches) <= CandidateLimit
    /\ \A j, k \in DOMAIN potentialMatches :
         j < k => potentialMatches[j].dateFound >= potentialMatches[k].dateFound
    /\ \A j \in DOMAIN potentialMatches :
         CoarsePredicate(lostItem, potentialMatches[j])
    /\ \A k \in NotRetrieved :
         CoarsePredicate(lostItem, foundItems[k]) =>
           /\ Len(potentialMatches) = CandidateLimit
           /\ \A j \in DOMAIN potentialMatches :
                potentialMatches[j].dateFound >= foundItems[k].dateFound

Min(a, b) == IF a <= b THEN a ELSE b

\* C25: every candidate findMatches retrieves scores at least 30, the
\* category being part of the query; so the threshold removes none of
\* them, the number of matches returned is min(10, number of candidates),
\* and no found item appears twice.
C25_ThresholdRemovesNothing ==
  Responded =>
    /\ \A j \in DOMAIN potentialMatches :
         /\ potentialMatches[j].category = lostItem.category
         /\ scoreOf(lostItem, hydrate(potentialMatches[j])) >= 30
    /\ Len(res.matches) = Min(10, Len(potentialMatches))
    /\ \A j, k \in DOMAIN res.matches :
         j # k => res.matches[j].id # res.matches[k].id

\* fewer than 10 candidates, one of them scoring exactly 30, all returned
C25_Witness ==
  /\ Responded
  /\ Len(potentialMatches) \in 2..9
  /\ Len(res.matches) = Len(potentialMatches)
  /\ \E j \in DOMAIN res.matches : res.matches[j].matchScore = 30

\* the found item is among the matches returned
Returned(found) == \E j \in DOMAIN res.matches : res.matches[j].id = found.id

\* the score the handler gives the found item
HandlerScore(found) == scoreOf(lostItem, hydrate(found))

\* C26: the matches returned are a top-k by score of the candidates: no
\* candidate left out scores strictly higher than a returned match; and
\* when at most 20 found items satisfy the coarse predicate, no found item
\* satisfying it that is outside the result scores strictly higher than a
\* returned match.
C26_TopKByScore ==
  Responded =>
    /\ \A j \in DOMAIN potentialMatches, m \in DOMAIN res.matches :
         ~Returned(potentialMatches[j]) =>
           HandlerScore(potentialMatches[j]) <= res.matches[m].matchScore
    /\ Cardinality({k \in DOMAIN foundItems :
                      CoarsePredicate(lostItem, foundItems[k])}) <= CandidateLimit =>
         \A k \in DOMAIN foundItems, m \in DOMAIN res.matches :
           (CoarsePredicate(lostItem, foundItems[k]) /\ ~Returned(foundItems[k])) =>
             HandlerScore(foundItems[k]) <= res.matches[m].matchScore

\* C27: when the lost item has a color, a brand, a size or a title word
\* longer than 2 characters, every returned match satisfies at least one
\* discriminator: a found item of the lost item's category that satisfies
\* none is never returned.
C27_MatchesSatisfyADiscriminator ==
  (Responded /\ ~NoDiscriminator(lostItem)) =>
    \A j \in DOMAIN res.matches : Discriminates(lostItem, res.matches[j])

----------------------------------------------------------------------------
(* More properties of GET /api/search/suggestions and GET /api/search *)

\* what the lost-title lookup yields: the titles of the first ten lost
\* items, in natural order, whose title contains the fragment
LostTitleLookup ==
  LET hit == Take(SelectSeq(naturalOrder(lostItems),
                            LAMBDA d : ContainsCI(d.title, req.q)), 10)
  IN [n \in DOMAIN hit |-> hit[n].title]

\* C28: if the lost-title lookup of suggest yields 10 pairwise distinct
\* titles, the suggestions returned are exactly those 10 titles in
\* retrieval order, whatever the found titles and the brands are.
C28_TenLostTitlesFillTheResult ==
  (/\ SuggestResponded
   /\ Len(req.q) >= MinQueryLength
   /\ selectorIncludes(req.type, "lost")
   /\ Len(LostTitleLookup) = 10
   /\ \A j, k \in DOMAIN LostTitleLookup :
        j # k => LostTitleLookup[j] # LostTitleLookup[k])
    => res.body.suggestions = LostTitleLookup

\* ten distinct lost titles returned while a found title and a lost brand
\* match the fragment as well
C28_Witness ==
  /\ SuggestResponded
  /\ req.type = ""
  /\ Len(LostTitleLookup) = 10
  /\ Cardinality(Range(LostTitleLookup)) = 10
  /\ res.body.suggestions = LostTitleLookup
  /\ TitleCandidates(Range(foundItems)) # {}
  /\ BrandCandidates(lostItems) # {}
  /\ Len(acc.suggestions) > 10

\* C29: findMatches called without a lost-item id answers 400 and issues no
\* repository read, neither the lookup of the lost item nor the query for
\* found items.
C29_MissingIdIsBadRequest ==
  (pc # "idle" /\ lostItemId = "")
    => /\ pc = "done"
       /\ res = errorResponse(400)
       /\ reads = <<>>

\* the request without id answered over collections that hold documents
C29_Witness ==
  /\ pc = "done"
  /\ IsMatchesBody
  /\ res.status = 400
  /\ lostItemId = ""
  /\ lostItems # {}
  /\ Len(foundItems) > 0

\* C30: search called with a selector other than absent, "all", "lost" or
\* "found" issues no repository read and answers with a successful, empty
\* result object: neither lostItems nor foundItems is in it.
C30_UnknownSelectorReadsNothing ==
  (pc # "idle" /\ req.type \notin {"", "all", "lost", "found"})
    => /\ pc = "done"
       /\ res.status = 200
       /\ IsSearchBody
       /\ res.body.keys = {}
       /\ res.body.lostItems = <<>>
       /\ res.body.foundItems = <<>>
       /\ reads = <<>>

\* the selector "items" with a term that stored items of both collections
\* satisfy
C30_Witness ==
  /\ pc = "done"
  /\ req.type = "items"
  /\ req.q = "phone"
  /\ \E d \in lostItems : Satisfies(d, d.dateLost)
  /\ \E d \in Range(foundItems) : Satisfies(d, d.dateFound)
  /\ res.status = 200

====
